---- MODULE Spec2Model ----
(***************************************************************************)
(* The chess session of the "Automatic Tool Calling" notebook: the move    *)
(* arbiter (legal_moves, possible_captures, possible_checks,               *)
(* get_move_history, is_ai_turn, make_ai_move, make_user_move) and the     *)
(* session loop that alternates model.act and input().                     *)
(*                                                                         *)
(* The rules engine (chess.Board) is instantiated on a reduced board: the  *)
(* a1..c3 corner with a white king, a white rook and a black king.  Its    *)
(* operations keep the engine's semantics: legal-move generation in the    *)
(* engine's order, SAN formatting with capture mark and check suffix, SAN  *)
(* parsing by the engine's regular expression (overspecified and           *)
(* unsuffixed notation, null-move tokens), push with turn flip.            *)
(* Texts are sequences of one-character strings.                           *)
(*                                                                         *)
(* The contract analysis notebook: split_text and                          *)
(* generate_analysis_with_watsonx, on contracts of a few characters.       *)
(***************************************************************************)
EXTENDS Integers, Sequences, FiniteSets, TLC

VARIABLES
    board,              \* the chess.Board: pieces, turn, move_stack, halfmove_clock
    ai_pos,             \* 0: the AI plays white, 1: the AI plays black
    move,               \* the loop's ply counter
    userEndGame,        \* the human entered quit
    game_over_message,  \* the last value of get_end_state()
    pc,                 \* where the session loop stands
    rounds,             \* prediction rounds used by the running model.act
    last_call,          \* the last arbiter call or command and how it ended
    display,            \* what the notebook cell shows
    contract_text,      \* the contract handed to the analysis
    max_tokens,         \* the limit handed to split_text
    chunks,             \* what split_text returned
    results,            \* the results of the chunks processed so far
    invocations,        \* the prompts watson_llm.invoke received, in order
    contract_analysis,  \* what generate_analysis_with_watsonx returned
    phase               \* where the contract analysis stands

session_vars == <<board, ai_pos, move, userEndGame, game_over_message, pc,
                  rounds, last_call, display>>

contract_vars == <<contract_text, max_tokens, chunks, results, invocations,
                   contract_analysis, phase>>

vars == <<board, ai_pos, move, userEndGame, game_over_message, pc, rounds,
          last_call, display, contract_text, max_tokens, chunks, results,
          invocations, contract_analysis, phase>>

\* the contract notebook has not been run
ContractNotRun ==
    /\ contract_text = <<>>
    /\ max_tokens = 0
    /\ chunks = <<>>
    /\ results = <<>>
    /\ invocations = <<>>
    /\ contract_analysis = <<>>
    /\ phase = "not_run"

(* ------------------------------------------------------------------ *)
(* Bounds                                                              *)
(* ------------------------------------------------------------------ *)

\* The longest move stack explored.
MaxPly == 3

\* max_prediction_rounds of model.act.
max_prediction_rounds == 5

\* The halfmove-clock threshold of is_seventyfive_moves is 2 * 75.
SeventyFiveMoves == 75

(* ------------------------------------------------------------------ *)
(* Rules engine: squares, pieces, attacks                              *)
(* ------------------------------------------------------------------ *)

Files == <<"a", "b", "c">>
Ranks == <<"1", "2", "3">>
NFiles == Len(Files)
Squares == 0 .. (NFiles * Len(Ranks) - 1)

WHITE == TRUE
BLACK == FALSE

square_file(sq) == sq % NFiles
square_rank(sq) == sq \div NFiles
square(f, r) == r * NFiles + f

Abs(x) == IF x < 0 THEN -x ELSE x

\* piece symbols: upper case white, lower case black, "." empty
EMPTY == "."
color_at(pieces, sq) ==
    IF pieces[sq] \in {"K", "R"} THEN "w"
    ELSE IF pieces[sq] \in {"k", "r"} THEN "b" ELSE "-"
ColorName(color) == IF color = WHITE THEN "w" ELSE "b"
piece_type_at(pieces, sq) ==
    IF pieces[sq] \in {"K", "k"} THEN "K"
    ELSE IF pieces[sq] \in {"R", "r"} THEN "R" ELSE "-"

\* the squares strictly between two squares of one rank or one file
Between ==
    [a \in Squares, b \in Squares |->
        {s \in Squares :
            \/ /\ square_rank(a) = square_rank(b) /\ square_rank(s) = square_rank(a)
               /\ \/ (square_file(a) < square_file(s) /\ square_file(s) < square_file(b))
                  \/ (square_file(b) < square_file(s) /\ square_file(s) < square_file(a))
            \/ /\ square_file(a) = square_file(b) /\ square_file(s) = square_file(a)
               /\ \/ (square_rank(a) < square_rank(s) /\ square_rank(s) < square_rank(b))
                  \/ (square_rank(b) < square_rank(s) /\ square_rank(s) < square_rank(a))}]

\* BB_KING_ATTACKS
KingAttacks ==
    [sq \in Squares |->
        {t \in Squares : /\ t # sq
                         /\ Abs(square_file(t) - square_file(sq)) <= 1
                         /\ Abs(square_rank(t) - square_rank(sq)) <= 1}]

\* the rook's rays on an empty board
RookLines ==
    [sq \in Squares |->
        {t \in Squares : /\ t # sq
                         /\ \/ square_file(t) = square_file(sq)
                            \/ square_rank(t) = square_rank(sq)}]

attacks(pieces, sq) ==
    CASE piece_type_at(pieces, sq) = "K" -> KingAttacks[sq]
      [] piece_type_at(pieces, sq) = "R" ->
            {t \in RookLines[sq] : \A s \in Between[sq, t] : pieces[s] = EMPTY}
      [] OTHER -> {}

is_attacked_by(pieces, color, sq) ==
    \E s \in Squares : color_at(pieces, s) = ColorName(color) /\ sq \in attacks(pieces, s)

has_king(pieces, color) ==
    \E s \in Squares : piece_type_at(pieces, s) = "K" /\ color_at(pieces, s) = ColorName(color)

king(pieces, color) ==
    CHOOSE s \in Squares : piece_type_at(pieces, s) = "K" /\ color_at(pieces, s) = ColorName(color)

(* ------------------------------------------------------------------ *)
(* Rules engine: moves                                                 *)
(* ------------------------------------------------------------------ *)

Move(f, t) == [from_square |-> f, to_square |-> t]
NullMove == Move(0, 0)

MovePieces(pieces, m) ==
    [pieces EXCEPT ![m.to_square] = pieces[m.from_square], ![m.from_square] = EMPTY]

is_pseudo_legal(b, m) ==
    /\ m.from_square # m.to_square
    /\ color_at(b.pieces, m.from_square) = ColorName(b.turn)
    /\ color_at(b.pieces, m.to_square) # ColorName(b.turn)
    /\ m.to_square \in attacks(b.pieces, m.from_square)

\* without a king of the side to move every pseudo-legal move is legal
is_legal(b, m) ==
    /\ is_pseudo_legal(b, m)
    /\ LET after == MovePieces(b.pieces, m)
       IN has_king(b.pieces, b.turn) =>
              ~is_attacked_by(after, ~b.turn, king(after, b.turn))

\* every (from, to) pair, from-square descending, then to-square descending:
\* the order of scan_reversed in the engine's move generator
AllMovesDesc ==
    LET n == Cardinality(Squares)
    IN [i \in 1 .. n * n |-> Move((n * n - i) \div n, (n * n - i) % n)]

generate_legal_moves(b) == SelectSeq(AllMovesDesc, LAMBDA m : is_legal(b, m))

SeqToSet(s) == {s[i] : i \in 1 .. Len(s)}

\* touched = from ^ to; a capture when a touched square holds an opposing piece
is_capture(b, m) ==
    \/ color_at(b.pieces, m.to_square) = ColorName(~b.turn)
    \/ color_at(b.pieces, m.from_square) = ColorName(~b.turn)

\* push that forgets to hand the move to the other side
push_keep_turn(b, m) ==
    IF m = NullMove
    THEN [b EXCEPT !.move_stack = Append(b.move_stack, m),
                   !.halfmove_clock = b.halfmove_clock + 1]
    ELSE [b EXCEPT !.pieces = MovePieces(b.pieces, m),
                   !.move_stack = Append(b.move_stack, m),
                   !.halfmove_clock = b.halfmove_clock + 1]

\* a push that keeps only the latest move on the stack
push_forgets(b, m) ==
    [push_keep_turn(b, m) EXCEPT !.turn = ~b.turn, !.move_stack = <<m>>]

push(b, m) ==
    IF m = NullMove
    THEN [b EXCEPT !.turn = ~b.turn,
                   !.move_stack = Append(b.move_stack, m),
                   !.halfmove_clock = b.halfmove_clock + 1]
    ELSE [b EXCEPT !.pieces = MovePieces(b.pieces, m),
                   !.turn = ~b.turn,
                   !.move_stack = Append(b.move_stack, m),
                   !.halfmove_clock = IF is_capture(b, m) THEN 0 ELSE b.halfmove_clock + 1]

is_check(b) ==
    has_king(b.pieces, b.turn) /\ is_attacked_by(b.pieces, ~b.turn, king(b.pieces, b.turn))
has_legal_moves(b) == \E f \in Squares, t \in Squares : is_legal(b, Move(f, t))
is_checkmate(b) == is_check(b) /\ ~has_legal_moves(b)
is_stalemate(b) == ~is_check(b) /\ ~has_legal_moves(b)
gives_check(b, m) == is_check(push(b, m))

is_insufficient_material(b) ==
    \A s \in Squares : piece_type_at(b.pieces, s) # "R"

is_seventyfive_moves(b) ==
    b.halfmove_clock >= 2 * SeventyFiveMoves /\ has_legal_moves(b)

StartPieces ==
    [s \in Squares |->
        IF s = square(1, 0) THEN "K"
        ELSE IF s = square(0, 0) THEN "R"
        ELSE IF s = square(1, 2) THEN "k" ELSE EMPTY]

StartBoard ==
    [pieces |-> StartPieces, turn |-> WHITE, move_stack |-> <<>>, halfmove_clock |-> 0]

RECURSIVE PlayOn(_, _, _, _)
\* the positions after each of the moves lo .. hi of the line, played from b
PlayOn(b, line, lo, hi) ==
    IF lo > hi THEN <<>>
    ELSE IF lo = hi THEN <<push(b, line[lo])>>
    ELSE CHOOSE all \in {first \o PlayOn(first[Len(first)], line, (lo + hi) \div 2 + 1, hi) :
                            first \in {PlayOn(b, line, lo, (lo + hi) \div 2)}} : TRUE

\* the positions from the start to after the first k moves of the stack
Positions(stack, k) == <<StartBoard>> \o PlayOn(StartBoard, stack, 1, k)

\* the position after the first k moves of the stack
Replay(stack, k) == Positions(stack, k)[k + 1]

\* a pop that takes the move off the stack and leaves the pieces and the
\* side to move as the move made them
pop_stack_only(b) ==
    [b EXCEPT !.move_stack = SubSeq(b.move_stack, 1, Len(b.move_stack) - 1)]

\* board.pop(): the position before the last move of the stack
pop(b) == Replay(b.move_stack, Len(b.move_stack) - 1)

\* how often the position of b has occurred, b's own occurrence included
Occurrences(b) ==
    CHOOSE n \in {Cardinality({k \in 1 .. Len(h) :
                                  h[k].pieces = b.pieces /\ h[k].turn = b.turn}) :
                      h \in {Positions(b.move_stack, Len(b.move_stack))}} : TRUE

is_fivefold_repetition(b) == Occurrences(b) >= 5

(* ------------------------------------------------------------------ *)
(* Rules engine: standard algebraic notation                           *)
(* ------------------------------------------------------------------ *)

SquareNames == [sq \in Squares |-> <<Files[square_file(sq) + 1], Ranks[square_rank(sq) + 1]>>]
square_name(sq) == SquareNames[sq]

\* what board.san raises on a move whose from-square is empty
SanAssertionError == <<"AssertionError">>

\* from-squares of the other pieces of the same type and colour that may
\* legally go to the same square
Others(b, m) ==
    {f \in Squares :
        /\ f # m.from_square
        /\ piece_type_at(b.pieces, f) = piece_type_at(b.pieces, m.from_square)
        /\ color_at(b.pieces, f) = ColorName(b.turn)
        /\ is_legal(b, Move(f, m.to_square))}

Disambiguation(b, m) ==
    LET others == Others(b, m)
        sameRank == \E f \in others : square_rank(f) = square_rank(m.from_square)
        sameFile == \E f \in others : square_file(f) = square_file(m.from_square)
        row == sameFile
        column == sameRank \/ ~sameFile
    IN IF others = {} THEN <<>>
       ELSE (IF column THEN <<Files[square_file(m.from_square) + 1]>> ELSE <<>>)
            \o (IF row THEN <<Ranks[square_rank(m.from_square) + 1]>> ELSE <<>>)

algebraic_without_suffix(b, m) ==
    IF m = NullMove THEN <<"-", "-">>
    ELSE <<piece_type_at(b.pieces, m.from_square)>>
         \o Disambiguation(b, m)
         \o (IF is_capture(b, m) THEN <<"x">> ELSE <<>>)
         \o square_name(m.to_square)

\* board.san asserts that a piece stands on the from-square of the move
SanAsserts(b, m) == m # NullMove /\ b.pieces[m.from_square] = EMPTY

\* board.san(move): the notation of move in position b
san(b, m) ==
    IF SanAsserts(b, m) THEN SanAssertionError
    ELSE LET after == push(b, m)
         IN algebraic_without_suffix(b, m)
            \o (IF is_checkmate(after) THEN <<"#">>
                ELSE IF is_check(after) THEN <<"+">> ELSE <<>>)

PieceLetters == {"N", "B", "K", "R", "Q"}
FileChars == {"a", "b", "c", "d", "e", "f", "g", "h"}
RankChars == {"1", "2", "3", "4", "5", "6", "7", "8"}
PromotionChars == {"n", "b", "r", "q", "k", "N", "B", "R", "Q", "K"}

CastlingTexts ==
    {<<"O", "-", "O">>, <<"O", "-", "O", "+">>, <<"O", "-", "O", "#">>,
     <<"0", "-", "0">>, <<"0", "-", "0", "+">>, <<"0", "-", "0", "#">>,
     <<"O", "-", "O", "-", "O">>, <<"0", "-", "0", "-", "0">>}

NullTexts == {<<"-", "-">>, <<"Z", "0">>, <<"0", "0", "0", "0">>, <<"@", "@", "@", "@">>}

DropLast(s) == SubSeq(s, 1, Len(s) - 1)
Last(s) == s[Len(s)]

\* SAN_REGEX: ([NBKRQ])?([a-h])?([1-8])?[\-x]?([a-h][1-8])(=?[nbrqkNBRQK])?[\+#]?

\* the text without its optional [\+#]
StripSuffix(text) ==
    IF Len(text) > 0 /\ Last(text) \in {"+", "#"} THEN DropLast(text) ELSE text

HasPromotion(s) == Len(s) > 0 /\ Last(s) \in PromotionChars

StripEquals(s) == IF Len(s) > 0 /\ Last(s) = "=" THEN DropLast(s) ELSE s

\* the text without its optional (=?[nbrqkNBRQK])
StripPromotion(s) == IF HasPromotion(s) THEN StripEquals(DropLast(s)) ELSE s

\* ([a-h][1-8]) ends the rest
HasToSquare(s) == Len(s) >= 2 /\ s[Len(s) - 1] \in FileChars /\ s[Len(s)] \in RankChars

\* an optional character of a class at position i: the position after it
Scan(pre, i, class) == IF Len(pre) >= i /\ pre[i] \in class THEN i + 1 ELSE i

AfterPiece(pre) == Scan(pre, 1, PieceLetters)
AfterFile(pre) == Scan(pre, AfterPiece(pre), FileChars)
AfterRank(pre) == Scan(pre, AfterFile(pre), RankChars)
AfterMark(pre) == Scan(pre, AfterRank(pre), {"-", "x"})

\* the groups of ([NBKRQ])?([a-h])?([1-8])?[\-x]? matched against all of pre
PrefixGroups(pre) ==
    [matched |-> AfterMark(pre) = Len(pre) + 1,
     piece |-> IF AfterPiece(pre) = 2 THEN pre[1] ELSE "",
     file |-> IF AfterFile(pre) > AfterPiece(pre) THEN pre[AfterPiece(pre)] ELSE "",
     rank |-> IF AfterRank(pre) > AfterFile(pre) THEN pre[AfterFile(pre)] ELSE ""]

\* the match of the body (suffix and promotion stripped)
BodyMatch(s, promotion) ==
    IF ~HasToSquare(s) THEN [matched |-> FALSE]
    ELSE PrefixGroups(SubSeq(s, 1, Len(s) - 2)) @@
         [to_file |-> s[Len(s) - 1], to_rank |-> s[Len(s)], promotion |-> promotion]

\* The groups of a match of SAN_REGEX, or matched = FALSE.
SanMatch(text) ==
    BodyMatch(StripPromotion(StripSuffix(text)), HasPromotion(StripSuffix(text)))

\* the legal moves a matched SAN selects: to_mask, from_mask, then the
\* legal moves between them
SanCandidates(b, g) ==
    LET to_mask == {t \in Squares : square_name(t) = <<g.to_file, g.to_rank>>}
        from_mask ==
            {f \in Squares :
                /\ g.file # "" => Files[square_file(f) + 1] = g.file
                /\ g.rank # "" => Ranks[square_rank(f) + 1] = g.rank
                /\ IF g.piece # ""
                   THEN /\ piece_type_at(b.pieces, f) = g.piece
                        /\ color_at(b.pieces, f) = ColorName(b.turn)
                   ELSE g.file # "" /\ g.rank # ""}
    IN IF g.promotion THEN {}
       ELSE {m \in {Move(f, t) : f \in from_mask, t \in to_mask} : is_legal(b, m)}

\* board.parse_san(text): the move, or the ValueError raised
parse_san(b, text) ==
    IF text \in CastlingTexts THEN [ok |-> FALSE, error |-> "illegal san"]
    ELSE LET g == SanMatch(text)
         IN IF ~g.matched
            THEN IF text \in NullTexts THEN [ok |-> TRUE, move |-> NullMove]
                 ELSE [ok |-> FALSE, error |-> "invalid san"]
            ELSE LET c == SanCandidates(b, g)
                 IN IF c = {} THEN [ok |-> FALSE, error |-> "illegal san"]
                    ELSE IF Cardinality(c) > 1 THEN [ok |-> FALSE, error |-> "ambiguous san"]
                    ELSE [ok |-> TRUE, move |-> CHOOSE m \in c : TRUE]

\* board.push_san(text): the board after, or the ValueError raised
push_san(b, text) ==
    LET r == parse_san(b, text)
    IN IF r.ok THEN [ok |-> TRUE, board |-> push(b, r.move)]
       ELSE [ok |-> FALSE, error |-> r.error, board |-> b]

(* ------------------------------------------------------------------ *)
(* Move arbiter                                                        *)
(* ------------------------------------------------------------------ *)

LegalMoveSet(b) == SeqToSet(generate_legal_moves(b))

legal_moves(b) ==
    LET g == generate_legal_moves(b) IN [i \in 1 .. Len(g) |-> san(b, g[i])]

possible_captures(b) ==
    LET g == SelectSeq(generate_legal_moves(b), LAMBDA m : is_capture(b, m))
    IN [i \in 1 .. Len(g) |-> san(b, g[i])]

possible_checks(b) ==
    LET g == SelectSeq(generate_legal_moves(b), LAMBDA m : gives_check(b, m))
    IN [i \in 1 .. Len(g) |-> san(b, g[i])]

\* every move of the stack is formatted in the CURRENT position
get_move_history(b) ==
    [i \in 1 .. Len(b.move_stack) |-> san(b, b.move_stack[i])]

\* an is_ai_turn that leaves ai_pos out of the comparison
is_ai_turn_white(b, aipos) == b.turn

is_ai_turn(b, aipos) == b.turn = (aipos = 0)

\* the outcome of a guarded mutation: the board after and how the call ended
Outcome(res, b) == [result |-> res, board |-> b]

\* make_ai_move without its is_ai_turn() guard
make_ai_move_unguarded(b, aipos, text) ==
    LET r == push_san(b, text)
    IN IF r.ok THEN Outcome("OK", r.board) ELSE Outcome("ILLEGAL_MOVE", b)

make_ai_move(b, aipos, text) ==
    IF is_ai_turn(b, aipos)
    THEN LET r == push_san(b, text)
         IN IF r.ok THEN Outcome("OK", r.board) ELSE Outcome("ILLEGAL_MOVE", b)
    ELSE Outcome("WRONG_TURN", b)

\* make_user_move without its is_ai_turn() guard
make_user_move_unguarded(b, aipos, text) ==
    LET r == push_san(b, text)
    IN IF r.ok THEN Outcome("OK", r.board) ELSE Outcome("ILLEGAL_MOVE", b)

make_user_move(b, aipos, text) ==
    IF ~is_ai_turn(b, aipos)
    THEN LET r == push_san(b, text)
         IN IF r.ok THEN Outcome("OK", r.board) ELSE Outcome("ILLEGAL_MOVE", b)
    ELSE Outcome("WRONG_TURN", b)

\* a get_end_state that looks for the repetition before the 75-move rule
get_end_state_repetition_first(b) ==
    IF is_checkmate(b) THEN "Checkmate!"
    ELSE IF is_stalemate(b) THEN "Stalemate!"
    ELSE IF is_insufficient_material(b) THEN "Draw by insufficient material!"
    ELSE IF is_fivefold_repetition(b) THEN "Draw by fivefold repetition!"
    ELSE IF is_seventyfive_moves(b) THEN "Draw by 75-move rule!"
    ELSE "None"

get_end_state(b) ==
    IF is_checkmate(b) THEN "Checkmate!"
    ELSE IF is_stalemate(b) THEN "Stalemate!"
    ELSE IF is_insufficient_material(b) THEN "Draw by insufficient material!"
    ELSE IF is_seventyfive_moves(b) THEN "Draw by 75-move rule!"
    ELSE IF is_fivefold_repetition(b) THEN "Draw by fivefold repetition!"
    ELSE "None"

\* an update_board that labels the board with move instead of move + 1
update_board_from_zero(d, mv, aipos) ==
    [label |-> mv,
     orientation |-> IF aipos = 1 THEN WHITE ELSE BLACK,
     renders |-> d.renders + 1]

\* update_board(move): the label is move + 1; white at the bottom when ai_pos = 1
update_board(d, mv, aipos) ==
    [label |-> mv + 1,
     orientation |-> IF aipos = 1 THEN WHITE ELSE BLACK,
     renders |-> d.renders + 1]

(* ------------------------------------------------------------------ *)
(* Texts the human types and the agent passes to make_ai_move          *)
(* ------------------------------------------------------------------ *)

UpperCase == <<"A", "B", "C", "D", "E", "F", "G", "H", "I", "J", "K", "L", "M",
               "N", "O", "P", "Q", "R", "S", "T", "U", "V", "W", "X", "Y", "Z">>
LowerCase == <<"a", "b", "c", "d", "e", "f", "g", "h", "i", "j", "k", "l", "m",
               "n", "o", "p", "q", "r", "s", "t", "u", "v", "w", "x", "y", "z">>

LowerTable ==
    [c \in SeqToSet(UpperCase) |->
        LowerCase[CHOOSE i \in 1 .. Len(UpperCase) : UpperCase[i] = c]]

LowerChar(c) == IF c \in DOMAIN LowerTable THEN LowerTable[c] ELSE c

\* str.lower()
lower(text) == [i \in 1 .. Len(text) |-> LowerChar(text[i])]

QuitText == <<"q", "u", "i", "t">>
HelpText == <<"h", "e", "l", "p">>

CommandTexts ==
    {QuitText, <<"Q", "U", "I", "T">>, <<"Q", "u", "i", "t">>,
     HelpText, <<"H", "E", "L", "P">>, <<"h", "e", "L", "p">>,
     <<"q", "u", "i", "t", " ">>, <<"h", "e", "l", "p", "!">>}

\* piece letter, optional capture mark, square, optional suffix
ShortTexts ==
    {<<p>> \o square_name(t) \o suf :
        p \in {"K", "R"}, t \in Squares, suf \in {<<>>, <<"+">>, <<"#">>}}
    \cup {<<p, "x">> \o square_name(t) : p \in {"K", "R"}, t \in Squares}

\* long algebraic notation: from-square and to-square, from the squares
\* occupied in the starting position
LongTexts ==
    {square_name(f) \o square_name(t) :
        f \in {sq \in Squares : StartPieces[sq] # EMPTY}, t \in Squares}

OtherTexts ==
    NullTexts \cup
    {<<>>, <<"e", "9">>, <<"e", "4">>, <<"a", "3">>, <<"O", "-", "O">>,
     <<"R", "a", "3", "=", "Q">>, <<"R", "a", "a", "3">>, <<"R", "2", "a", "3">>,
     <<"N", "f", "3">>, <<"r", "a", "3">>, <<"R", "-", "a", "3">>}

Texts == CommandTexts \cup ShortTexts \cup LongTexts \cup OtherTexts

QueryTools == {"get_move_history", "legal_moves", "possible_captures", "possible_checks"}

\* what a query tool returns
QueryResult(tool, b) ==
    CASE tool = "get_move_history" -> get_move_history(b)
      [] tool = "legal_moves" -> legal_moves(b)
      [] tool = "possible_captures" -> possible_captures(b)
      [] tool = "possible_checks" -> possible_checks(b)

\* how a query tool ends: board.san asserts on a move it cannot format
QueryStatus(tool, b) ==
    IF SanAssertionError \in SeqToSet(QueryResult(tool, b)) THEN "AssertionError" ELSE "OK"

\* the board after board.san(m) or board.gives_check(m): both push the
\* move, look at the position and pop it; san asserts before it pushes
AfterSan(b, m) == IF SanAsserts(b, m) THEN b ELSE pop(push(b, m))

RECURSIVE AfterSans(_, _, _)
\* the board after the calls for the moves i .. Len(moves), one after the
\* other; an assertion ends the list comprehension
AfterSans(b, moves, i) ==
    IF i > Len(moves) \/ SanAsserts(b, moves[i]) THEN b
    ELSE CHOOSE after \in {AfterSans(next, moves, i + 1) :
                              next \in {AfterSan(b, moves[i])}} : TRUE

RECURSIVE ChecksCalls(_, _, _)
\* possible_checks: gives_check for every legal move, and san after it for
\* a move that gives check
ChecksCalls(b, moves, i) ==
    IF i > Len(moves) THEN <<>>
    ELSE (IF gives_check(b, moves[i]) THEN <<moves[i], moves[i]>> ELSE <<moves[i]>>)
         \o ChecksCalls(b, moves, i + 1)

\* the moves a query tool pushes and pops, in the order of its calls
QueryCalls(tool, b) ==
    CASE tool = "get_move_history" -> b.move_stack
      [] tool = "legal_moves" -> generate_legal_moves(b)
      [] tool = "possible_captures" ->
            SelectSeq(generate_legal_moves(b), LAMBDA m : is_capture(b, m))
      [] tool = "possible_checks" -> ChecksCalls(b, generate_legal_moves(b), 1)

\* the board a query tool leaves behind
AfterQuery(tool, b) ==
    CHOOSE after \in {AfterSans(b, calls, 1) : calls \in {QueryCalls(tool, b)}} : TRUE

(* ------------------------------------------------------------------ *)
(* Session loop                                                        *)
(* ------------------------------------------------------------------ *)

\* the last call or command: what it was, how it ended, the line typed and
\* the list it printed
Call(op, res) == [op |-> op, result |-> res, input |-> <<>>, shown |-> <<>>]

\* a command the human typed, with the line as typed
Command(op, text) == [op |-> op, result |-> "OK", input |-> text, shown |-> <<>>]

\* print("Possible moves:", legal_moves())
Printed(call, list) == [call EXCEPT !.shown = list]

\* a loop that branches on ai_pos the other way round
InitBranchSwapped ==
    /\ board = StartBoard
    /\ ai_pos \in {0, 1}
    /\ move = 0
    /\ userEndGame = FALSE
    /\ game_over_message = "None"
    /\ pc = IF ai_pos = 1 THEN "ai_act" ELSE "user_input"
    /\ rounds = 0
    /\ last_call = Call("none", "none")
    /\ display = [label |-> 0,
                  orientation |-> IF ai_pos = 1 THEN WHITE ELSE BLACK,
                  renders |-> 1]
    /\ ContractNotRun

Init ==
    /\ board = StartBoard
    /\ ai_pos \in {0, 1}
    /\ move = 0
    /\ userEndGame = FALSE
    /\ game_over_message = "None"
    /\ pc = IF ai_pos = 0 THEN "ai_act" ELSE "user_input"
    /\ rounds = 0
    /\ last_call = Call("none", "none")
    /\ display = [label |-> 0,
                  orientation |-> IF ai_pos = 1 THEN WHITE ELSE BLACK,
                  renders |-> 1]
    /\ ContractNotRun

\* the exploration does not extend a move stack of MaxPly plies
WithinBound == Len(board.move_stack) < MaxPly

\* model.act: the agent calls one of the four query tools
AgentQuery ==
    /\ pc = "ai_act"
    /\ rounds < max_prediction_rounds
    /\ \E tool \in QueryTools :
          /\ last_call' = Call(tool, QueryStatus(tool, board))
          /\ board' = AfterQuery(tool, board)
    /\ rounds' = rounds + 1
    /\ UNCHANGED <<ai_pos, move, userEndGame, game_over_message, pc, display>>
    /\ UNCHANGED contract_vars

\* a tool list that also holds make_user_move
AgentMakeEitherMove ==
    /\ pc = "ai_act"
    /\ rounds < max_prediction_rounds
    /\ \E text \in Texts, tool \in {"make_ai_move", "make_user_move"} :
          LET r == IF tool = "make_ai_move" THEN make_ai_move(board, ai_pos, text)
                   ELSE make_user_move(board, ai_pos, text)
          IN /\ r.result = "OK" => WithinBound
             /\ board' = r.board
             /\ last_call' = Call(tool, r.result)
    /\ rounds' = rounds + 1
    /\ UNCHANGED <<ai_pos, move, userEndGame, game_over_message, pc, display>>
    /\ UNCHANGED contract_vars

\* model.act: the agent calls make_ai_move(text); a ValueError goes back to
\* the agent as the tool's result
AgentMakeMove ==
    /\ pc = "ai_act"
    /\ rounds < max_prediction_rounds
    /\ \E text \in Texts :
          LET r == make_ai_move(board, ai_pos, text)
          IN /\ r.result = "OK" => WithinBound
             /\ board' = r.board
             /\ last_call' = Call("make_ai_move", r.result)
    /\ rounds' = rounds + 1
    /\ UNCHANGED <<ai_pos, move, userEndGame, game_over_message, pc, display>>
    /\ UNCHANGED contract_vars

\* the colour the task description of model.act names: "You are a chess AI,
\* playing for black" in the ai_pos == 0 branch and in the else branch alike
TaskColor(aipos) == IF aipos = 0 THEN BLACK ELSE BLACK

\* model.act returns: the agent stopped calling tools or used up its rounds
AgentReturn ==
    /\ pc = "ai_act"
    /\ pc' = "ai_failsafe"
    /\ UNCHANGED <<board, ai_pos, move, userEndGame, game_over_message, rounds,
                   last_call, display>>
    /\ UNCHANGED contract_vars

\* a failsafe that takes the last legal move
FailsafeMoveLast(b) == legal_moves(b)[Len(legal_moves(b))]

\* the argument of the failsafe's make_ai_move: legal_moves()[0]
FailsafeMove(b) == legal_moves(b)[1]

\* a loop without the failsafe
FailsafeSkipped ==
    /\ pc = "ai_failsafe"
    /\ pc' = "ai_update"
    /\ UNCHANGED <<board, ai_pos, move, userEndGame, game_over_message, rounds,
                   last_call, display>>
    /\ UNCHANGED contract_vars

\* a failsafe that submits its move through make_user_move
FailsafeUserMove ==
    /\ pc = "ai_failsafe"
    /\ IF is_ai_turn(board, ai_pos)
       THEN /\ WithinBound
            /\ LET r == make_user_move(board, ai_pos, FailsafeMove(board))
               IN /\ board' = r.board
                  /\ last_call' = Call("failsafe", r.result)
                  /\ pc' = IF r.result = "OK" THEN "ai_update" ELSE "crashed"
       ELSE /\ pc' = "ai_update"
            /\ UNCHANGED <<board, last_call>>
    /\ UNCHANGED <<ai_pos, move, userEndGame, game_over_message, rounds, display>>
    /\ UNCHANGED contract_vars

\* if is_ai_turn(): make_ai_move(legal_moves()[0]); an exception here leaves
\* the loop
Failsafe ==
    /\ pc = "ai_failsafe"
    /\ IF is_ai_turn(board, ai_pos)
       THEN /\ WithinBound
            /\ IF Len(legal_moves(board)) = 0
               THEN /\ pc' = "crashed"
                    /\ last_call' = Call("failsafe", "IndexError")
                    /\ UNCHANGED board
               ELSE LET r == make_ai_move(board, ai_pos, FailsafeMove(board))
                    IN /\ board' = r.board
                       /\ last_call' = Call("failsafe", r.result)
                       /\ pc' = IF r.result = "OK" THEN "ai_update" ELSE "crashed"
       ELSE /\ pc' = "ai_update"
            /\ UNCHANGED <<board, last_call>>
    /\ UNCHANGED <<ai_pos, move, userEndGame, game_over_message, rounds, display>>
    /\ UNCHANGED contract_vars

\* a termination check whose break is missing
AfterCheckNoBreak(message, next) == next

\* the loop's position after the termination check: break on a message
AfterCheck(message, next) == IF message # "None" THEN "done" ELSE next

\* update_board(move); move += 1; game_over_message = get_end_state(); break
\* when it is set, else on to the other side
AfterPly(here, next) ==
    /\ pc = here
    /\ display' = update_board(display, move, ai_pos)
    /\ move' = move + 1
    /\ game_over_message' = get_end_state(board)
    /\ pc' = AfterCheck(get_end_state(board), next)
    /\ rounds' = 0
    /\ last_call' = Call("get_end_state", get_end_state(board))
    /\ UNCHANGED <<board, ai_pos, userEndGame>>
    /\ UNCHANGED contract_vars

\* an AI branch that goes round to model.act again instead of the prompt
AiUpdateSkipsPrompt == AfterPly("ai_update", "ai_act")

AiUpdate == AfterPly("ai_update", "user_input")

\* a user branch that goes round to the prompt again instead of model.act
UserUpdateSkipsAgent == AfterPly("user_update", "user_input")

UserUpdate == AfterPly("user_update", "ai_act")

\* a dispatch that compares the line without lower()
DispatchCaseSensitive(user_move) ==
    IF user_move = QuitText THEN "quit"
    ELSE IF user_move = HelpText THEN "help"
    ELSE "move"

\* which branch of the input dispatch a line takes
Dispatch(user_move) ==
    IF lower(user_move) = QuitText THEN "quit"
    ELSE IF lower(user_move) = HelpText THEN "help"
    ELSE "move"

\* what one line of input does to the session
Step(b, p, ended, call) == [board |-> b, pc |-> p, userEndGame |-> ended, last_call |-> call]

\* quit without the outer loop's break on userEndGame
QuitStepNoBreak(b, user_move) == Step(b, "user_update", TRUE, Command("quit", user_move))

\* quit: userEndGame = True; break, and the outer loop breaks on userEndGame
QuitStep(b, user_move) == Step(b, "done", TRUE, Command("quit", user_move))

\* a help branch that ends with break instead of continue
HelpStepBreaks(b, user_move) ==
    Step(AfterQuery("legal_moves", b), "user_update", FALSE,
         Printed(Command("help", user_move), legal_moves(b)))

\* help: print legal_moves(); continue
HelpStep(b, user_move) ==
    Step(AfterQuery("legal_moves", b), "user_input", FALSE,
         Printed(Command("help", user_move), legal_moves(b)))

\* make_user_move(user_move); break, without the try and except around it
MoveStepUncaught(b, aipos, user_move) ==
    LET r == make_user_move(b, aipos, user_move)
    IN Step(r.board, IF r.result = "OK" THEN "user_update" ELSE "crashed", FALSE,
            Call("make_user_move", r.result))

\* try: make_user_move(user_move); break / except ValueError: print(e)
MoveStep(b, aipos, user_move) ==
    LET r == make_user_move(b, aipos, user_move)
    IN Step(r.board, IF r.result = "OK" THEN "user_update" ELSE "user_input", FALSE,
            Call("make_user_move", r.result))

UserStep(b, aipos, user_move) ==
    CASE Dispatch(user_move) = "quit" -> QuitStep(b, user_move)
      [] Dispatch(user_move) = "help" -> HelpStep(b, user_move)
      [] OTHER -> MoveStep(b, aipos, user_move)

\* one line of input(): quit, help, or a move for make_user_move
UserInput ==
    /\ pc = "user_input"
    /\ \E user_move \in Texts :
          LET s == UserStep(board, ai_pos, user_move)
          IN /\ s.pc = "user_update" => WithinBound
             /\ board' = s.board
             /\ pc' = s.pc
             /\ userEndGame' = s.userEndGame
             /\ last_call' = s.last_call
    /\ UNCHANGED <<ai_pos, move, game_over_message, rounds, display>>
    /\ UNCHANGED contract_vars

Next ==
    \/ AgentQuery
    \/ AgentMakeMove
    \/ AgentReturn
    \/ Failsafe
    \/ AiUpdate
    \/ UserInput
    \/ UserUpdate

Spec == Init /\ [][Next]_vars

\* The statements of the loop body run one after the other: a step of the
\* failsafe or of the update and termination check is a step that leaves
\* that position of the loop.  Failsafe is enabled exactly when FailsafeRuns
\* is, and AiUpdate or UserUpdate exactly when AfterPlyRuns is; the fairness
\* is stated on these, which read pc alone.
FailsafeRuns ==
    /\ pc = "ai_failsafe"
    /\ is_ai_turn(board, ai_pos) => WithinBound
    /\ pc' \in {"ai_update", "crashed"}

AfterPlyRuns ==
    /\ pc \in {"ai_update", "user_update"}
    /\ pc' \in {"done", "user_input", "ai_act"}

\* model.act returns after at most max_prediction_rounds rounds, and the
\* statements that follow it and follow input() run; the human may never
\* answer the prompt.
FairSpec ==
    Spec /\ WF_vars(AgentReturn) /\ WF_pc(FailsafeRuns) /\ WF_pc(AfterPlyRuns)

(* ------------------------------------------------------------------ *)
(* Long games: recorded lines replayed, then played on                 *)
(* ------------------------------------------------------------------ *)

\* The plies played freely after a recorded line.
MaxFreePlies == 2

\* the moves of a line given as <<from, to>> pairs
Line(pairs) == [i \in 1 .. Len(pairs) |-> Move(pairs[i][1], pairs[i][2])]

\* n plies of a line played round and round
Around(line, n) == [i \in 1 .. n |-> line[((i - 1) % Len(line)) + 1]]

\* a game that comes back to the starting position after sixty plies
\* without a capture and without passing through any position twice
RoundTrip ==
    Line(<<<<1, 2>>, <<7, 8>>, <<0, 3>>, <<8, 7>>, <<3, 5>>, <<7, 6>>,
         <<5, 8>>, <<6, 3>>, <<8, 7>>, <<3, 0>>, <<7, 1>>, <<0, 3>>,
         <<2, 5>>, <<3, 6>>, <<5, 8>>, <<6, 3>>, <<1, 7>>, <<3, 0>>,
         <<8, 5>>, <<0, 3>>, <<7, 8>>, <<3, 0>>, <<5, 7>>, <<0, 1>>,
         <<8, 5>>, <<1, 0>>, <<7, 8>>, <<0, 1>>, <<5, 4>>, <<1, 2>>,
         <<4, 3>>, <<2, 1>>, <<8, 7>>, <<1, 2>>, <<7, 6>>, <<2, 1>>,
         <<3, 5>>, <<1, 0>>, <<6, 7>>, <<0, 1>>, <<7, 8>>, <<1, 0>>,
         <<5, 2>>, <<0, 3>>, <<8, 5>>, <<3, 6>>, <<5, 1>>, <<6, 7>>,
         <<2, 5>>, <<7, 6>>, <<5, 3>>, <<6, 7>>, <<3, 4>>, <<7, 8>>,
         <<4, 5>>, <<8, 7>>, <<5, 3>>, <<7, 8>>, <<3, 0>>, <<8, 7>>>>)

\* ten plies that bring the position of ply 140 of the round trips back a
\* fifth time at ply 150
LastTurns ==
    Line(<<<<7, 8>>, <<3, 0>>, <<8, 7>>, <<0, 3>>, <<5, 8>>, <<3, 0>>,
         <<7, 6>>, <<0, 1>>, <<6, 7>>, <<1, 0>>>>)

\* both kings stepping aside and back
Shuffle == Line(<<<<1, 2>>, <<7, 8>>, <<2, 1>>, <<8, 7>>>>)

\* the plies after which the 75-move rule applies
Horizon == 2 * SeventyFiveMoves

\* a recorded line is one the session can have played: every ply legal in
\* its position, and no position before the last ending the game
ValidLine(line) ==
    \A h \in {Positions(line, Len(line))} :
        \A k \in 1 .. Len(line) :
            is_legal(h[k], line[k]) /\ get_end_state(h[k]) = "None"

RecordedGames ==
    {line \in {Around(RoundTrip, Horizon),
               Around(RoundTrip, Horizon - Len(LastTurns)) \o LastTurns,
               Around(Shuffle, 4 * Len(Shuffle))} : ValidLine(line)}

\* the recorded games are cut off where an end state is near
Cuts == {0, 2, 4 * Len(Shuffle) - 1, 4 * Len(Shuffle), Horizon - 1, Horizon}

RecordedLines ==
    UNION {{SubSeq(game, 1, n) : n \in {c \in Cuts : c <= Len(game)}} :
              game \in RecordedGames}

RecordedBoards == {Replay(line, Len(line)) : line \in RecordedLines}

\* the session stands after the last ply of a recorded line: the
\* termination check of that ply is next, or the first turn if no ply was
\* played; renders counts the renders from here on
ReplayInit ==
    /\ board \in RecordedBoards
    /\ ai_pos = 1
    /\ move = IF Len(board.move_stack) = 0 THEN 0 ELSE Len(board.move_stack) - 1
    /\ userEndGame = FALSE
    /\ game_over_message = "None"
    /\ pc = IF Len(board.move_stack) = 0 THEN "replay_ply" ELSE "replay_check"
    /\ rounds = 0
    /\ last_call = Call("none", "none")
    /\ display = [label |-> move,
                  orientation |-> WHITE,
                  renders |-> IF Len(board.move_stack) = 0 THEN 1 ELSE 0]
    /\ ContractNotRun

\* a further ply by the side to move: a legal move, or the null move
\* push_san admits
ReplayPly ==
    /\ pc = "replay_ply"
    /\ display.renders <= MaxFreePlies
    /\ \E m \in LegalMoveSet(board) \cup {NullMove} : board' = push(board, m)
    /\ pc' = "replay_check"
    /\ last_call' = Call("push_san", "OK")
    /\ UNCHANGED <<ai_pos, move, userEndGame, game_over_message, rounds, display>>
    /\ UNCHANGED contract_vars

\* the update and termination check that follow every ply
ReplayCheck == AfterPly("replay_check", "replay_ply")

ReplayNext == ReplayPly \/ ReplayCheck

ReplaySpec == ReplayInit /\ [][ReplayNext]_vars

(* ------------------------------------------------------------------ *)
(* The contract analysis notebook: split_text and                     *)
(* generate_analysis_with_watsonx                                     *)
(* ------------------------------------------------------------------ *)

\* contracts of the model: texts of at most MaxTextLen characters over two
\* letters and two kinds of whitespace
MaxTextLen == 5

\* the limits handed to split_text: 1..MaxTokens
MaxTokens == 4

\* max_tokens=100000 as generate_analysis_with_watsonx passes it, scaled to
\* the contracts of the model
AnalysisMaxTokens == 2

Whitespace == {" ", "\n"}

ContractChars == {"a", "b"} \cup Whitespace

ContractTexts == UNION {[1..n -> ContractChars] : n \in 0..MaxTextLen}

\* str.split() without a separator: the maximal runs of non-whitespace, in
\* order; no empty string among them
RECURSIVE ScanWords(_, _, _, _)
ScanWords(text, i, word, words) ==
    IF i > Len(text)
    THEN IF word = <<>> THEN words ELSE Append(words, word)
    ELSE IF text[i] \in Whitespace
         THEN ScanWords(text, i + 1, <<>>,
                        IF word = <<>> THEN words ELSE Append(words, word))
         ELSE ScanWords(text, i + 1, Append(word, text[i]), words)

split(text) == ScanWords(text, 1, <<>>, <<>>)

\* sep.join(list)
RECURSIVE join(_, _)
join(sep, list) ==
    IF list = <<>> THEN <<>>
    ELSE IF Len(list) = 1 THEN list[1]
    ELSE list[1] \o sep \o join(sep, Tail(list))

\* the for loop of split_text from the k-th word on, and the flush after it
RECURSIVE SplitLoop(_, _, _, _, _, _)
SplitLoop(words, k, done, current_chunk, current_length, limit) ==
    IF k > Len(words)
    THEN IF current_chunk # <<>>
         THEN Append(done, join(<<" ">>, current_chunk))
         ELSE done
    ELSE LET word == words[k]
             word_length == Len(word) + 1
             full == current_length + word_length > limit
         IN SplitLoop(words, k + 1,
                      IF full THEN Append(done, join(<<" ">>, current_chunk)) ELSE done,
                      Append(IF full THEN <<>> ELSE current_chunk, word),
                      (IF full THEN 0 ELSE current_length) + word_length,
                      limit)

split_text(text, limit) == SplitLoop(split(text), 1, <<>>, <<>>, 0, limit)

\* the instructions of prompt_template, up to "Contract Text:\n"
PromptText == <<"Analyze the following contract text ... Contract Text:", "\n">>

\* prompt_template.format_prompt(chunk=chunk)
format_prompt(chunk) == PromptText \o chunk

\* what watson_llm.invoke may return
Answers == {<<"x">>, <<"y">>}

\* the chess notebook has not been run
SessionNotRun ==
    /\ board = StartBoard
    /\ ai_pos = 0
    /\ move = 0
    /\ userEndGame = FALSE
    /\ game_over_message = "None"
    /\ pc = "not_run"
    /\ rounds = 0
    /\ last_call = Call("none", "none")
    /\ display = [label |-> 0, orientation |-> BLACK, renders |-> 0]

ContractInit ==
    /\ SessionNotRun
    /\ contract_text \in ContractTexts
    /\ max_tokens \in 1..MaxTokens
    /\ chunks = <<>>
    /\ results = <<>>
    /\ invocations = <<>>
    /\ contract_analysis = <<>>
    /\ phase = "start"

\* a call split_text(contract_text, max_tokens)
SplitText ==
    /\ phase = "start"
    /\ chunks' = split_text(contract_text, max_tokens)
    /\ phase' = "split_done"
    /\ UNCHANGED <<contract_text, max_tokens, results, invocations, contract_analysis>>
    /\ UNCHANGED session_vars

\* generate_analysis_with_watsonx: chunks = split_text(text,
\* max_tokens=100000); results = []
GenerateStart ==
    /\ phase = "start"
    /\ chunks' = split_text(contract_text, AnalysisMaxTokens)
    /\ results' = <<>>
    /\ phase' = "chunks_loop"
    /\ UNCHANGED <<contract_text, max_tokens, invocations, contract_analysis>>
    /\ UNCHANGED session_vars

\* a loop that takes the chunks from the last to the first
InvokeChunkBackwards ==
    /\ phase = "chunks_loop"
    /\ Len(results) < Len(chunks)
    /\ \E result \in Answers :
          LET chunk == chunks[Len(chunks) - Len(results)]
          IN /\ invocations' = Append(invocations, format_prompt(chunk))
             /\ results' = Append(results, result)
    /\ UNCHANGED <<contract_text, max_tokens, chunks, contract_analysis, phase>>
    /\ UNCHANGED session_vars

\* one pass of the loop body: format the prompt of the next chunk, invoke the
\* model, append its result
InvokeChunk ==
    /\ phase = "chunks_loop"
    /\ Len(results) < Len(chunks)
    /\ \E result \in Answers :
          LET chunk == chunks[Len(results) + 1]
          IN /\ invocations' = Append(invocations, format_prompt(chunk))
             /\ results' = Append(results, result)
    /\ UNCHANGED <<contract_text, max_tokens, chunks, contract_analysis, phase>>
    /\ UNCHANGED session_vars

\* return "\n\n".join(results)
GenerateReturn ==
    /\ phase = "chunks_loop"
    /\ Len(results) = Len(chunks)
    /\ contract_analysis' = join(<<"\n", "\n">>, results)
    /\ phase' = "returned"
    /\ UNCHANGED <<contract_text, max_tokens, chunks, results, invocations>>
    /\ UNCHANGED session_vars

ContractNext ==
    \/ SplitText
    \/ GenerateStart
    \/ InvokeChunk
    \/ GenerateReturn

ContractSpec == ContractInit /\ [][ContractNext]_vars

(* ------------------------------------------------------------------ *)
(* Properties                                                          *)
(* ------------------------------------------------------------------ *)

LegalTexts(b) == SeqToSet(legal_moves(b))
Plies == Len(board.move_stack)
AiTurn == is_ai_turn(board, ai_pos)

\* the colour each side holds: the AI moves first, as white, when ai_pos = 0
AiColor == IF ai_pos = 0 THEN WHITE ELSE BLACK

\* C1: every ply that enters the move stack is a member of the engine's
\* legal-move set for the position it is applied to.
C1_EveryPlyLegal ==
    [][board'.move_stack # board.move_stack =>
          \E m \in LegalMoveSet(board) : board' = push(board, m)]_vars

\* C2: for the side to move, a text that is not in legal_moves() is rejected
\* with ILLEGAL_MOVE and the board is unchanged.
C2_TextOutsideLegalMovesRejected ==
    \A text \in Texts :
        text \notin LegalTexts(board) =>
            /\ AiTurn => make_ai_move(board, ai_pos, text) = Outcome("ILLEGAL_MOVE", board)
            /\ ~AiTurn => make_user_move(board, ai_pos, text) = Outcome("ILLEGAL_MOVE", board)

\* C3: a move submitted by the side whose turn it is not is rejected with
\* WRONG_TURN and the board is unchanged, whatever the text, legal in the
\* position or not.
C3_OutOfTurnRejected ==
    \A text \in Texts :
        /\ board.turn # AiColor =>
              make_ai_move(board, ai_pos, text) = Outcome("WRONG_TURN", board)
        /\ board.turn = AiColor =>
              make_user_move(board, ai_pos, text) = Outcome("WRONG_TURN", board)

\* C3 witness: inside model.act, after the agent's ply, a further
\* make_ai_move was rejected with WRONG_TURN although the position has legal moves.
C3_Witness ==
    /\ pc = "ai_act"
    /\ last_call = Call("make_ai_move", "WRONG_TURN")
    /\ Plies >= 1
    /\ LegalTexts(board) # {}

\* C4: exactly one of the two entry points passes its turn guard: the
\* agent's when the side to move is the AI's colour, the human's otherwise.
C4_ExactlyOneSideMayMove ==
    \A text \in LegalTexts(board) \cup NullTexts \cup {<<"e", "9">>, QuitText} :
        LET ai == make_ai_move(board, ai_pos, text).result # "WRONG_TURN"
            user == make_user_move(board, ai_pos, text).result # "WRONG_TURN"
        IN /\ ai # user
           /\ ai = (board.turn = AiColor)
           /\ ai = is_ai_turn(board, ai_pos)

\* C4 witness: both sides have moved and it is the human's turn.
C4_Witness == Plies >= 2 /\ ~AiTurn /\ pc = "user_input"

\* C5: a successful apply_move hands the turn to the other side unless the
\* new position ends the game.
C5_TurnFlipsAfterPly ==
    [][(board'.move_stack # board.move_stack /\ get_end_state(board') = "None") =>
          is_ai_turn(board', ai_pos') # is_ai_turn(board, ai_pos)]_vars

\* C5 witness: the human's ply was applied, the game goes on and it is the
\* AI's turn.
C5_Witness ==
    /\ last_call = Call("make_user_move", "OK")
    /\ get_end_state(board) = "None"
    /\ AiTurn

\* C6: when model.act returns with the AI still to move, the failsafe
\* commits exactly one move: the first element of legal_moves() of the
\* position before it.
C6_FallbackFirstLegalMove ==
    [][(pc = "ai_failsafe" /\ pc' # pc /\ AiTurn) =>
          /\ Len(legal_moves(board)) > 0
          /\ board' = push(board, generate_legal_moves(board)[1])
          /\ san(board, Last(board'.move_stack)) = legal_moves(board)[1]
          /\ Len(board'.move_stack) = Plies + 1
          /\ pc' = "ai_update"]_vars

\* C6 witness: the agent called no tool at all and the failsafe moved.
C6_Witness ==
    /\ pc = "ai_update"
    /\ rounds = 0
    /\ last_call = Call("failsafe", "OK")
    /\ Plies = 2

\* C7: an AI turn that starts within the explored depth always ends: the
\* loop reaches the human's prompt or is done, the AI's ply on the stack and
\* the turn passed on; the loop never leaves by an exception.
C7_AiTurnEndsWithPly ==
    /\ (pc = "ai_act" /\ AiTurn /\ WithinBound) ~> (pc \in {"user_input", "done"})
    /\ [](pc = "ai_update" => (~AiTurn /\ Plies >= 1))
    /\ [](pc # "crashed")

\* C7 witness: the agent used all its rounds without committing a move
\* and the failsafe moved.
C7_Witness ==
    /\ pc = "ai_update"
    /\ rounds = max_prediction_rounds
    /\ last_call = Call("failsafe", "OK")

\* C8: after a ply the loop recomputes the end state; if it is set the loop
\* is done and nothing changes afterwards, else the other side is on; no
\* prompt or agent invocation starts, and no ply is applied, in a position
\* that ends the game.
C8_TerminationAfterPly ==
    /\ [][(pc \in {"ai_update", "user_update"} /\ pc' # pc) =>
             /\ game_over_message' = get_end_state(board)
             /\ pc' = IF get_end_state(board) # "None" THEN "done"
                      ELSE IF pc = "ai_update" THEN "user_input" ELSE "ai_act"]_vars
    /\ [][pc = "done" => vars' = vars]_vars
    /\ [][board' # board => get_end_state(board) = "None"]_vars
    /\ []((pc = "user_input" \/ (pc = "ai_act" /\ AiTurn)) => get_end_state(board) = "None")

\* C8 witness: the loop finished on a checkmate.
C8_Witness == pc = "done" /\ game_over_message = "Checkmate!" /\ is_checkmate(board)

\* C9: once the human has quit the loop is done and no variable changes any
\* more: no ply, no agent call, no prompt.
C9_QuitIsFinal ==
    /\ [](userEndGame => pc = "done")
    /\ [][userEndGame => vars' = vars]_vars

\* C9 witness: the human quit after plies were played.
C9_Witness == userEndGame /\ pc = "done" /\ Plies >= 2

\* two texts equal up to the case of their letters
EqualIgnoringCase(a, b) ==
    /\ Len(a) = Len(b)
    /\ \A i \in 1 .. Len(a) :
          \/ a[i] = b[i]
          \/ \E k \in 1 .. Len(UpperCase) :
                {a[i], b[i]} = {UpperCase[k], LowerCase[k]}

\* C10: at the prompt, a line equal to quit or help up to letter case is the
\* command and never reaches make_user_move: quit ends the session with
\* the board and the ply counter as they are, help leaves the session at the
\* prompt with the board as it is.
C10_CommandsNeverSubmitted ==
    pc = "user_input" =>
        \A text \in Texts :
            /\ EqualIgnoringCase(text, QuitText) =>
                  UserStep(board, ai_pos, text) = Step(board, "done", TRUE, Command("quit", text))
            /\ EqualIgnoringCase(text, HelpText) =>
                  UserStep(board, ai_pos, text) =
                      Step(board, "user_input", FALSE,
                           Printed(Command("help", text), legal_moves(board)))

\* C10 witness: QUIT in capitals ended the session after a ply, the ply
\* counter still counting the plies played.
C10_Witness ==
    /\ last_call = Command("quit", <<"Q", "U", "I", "T">>)
    /\ userEndGame
    /\ Plies = 1
    /\ move = 1

\* C11: help at the prompt leaves the board (position, move stack, side to
\* move), the ply counter and the display as they are, prints exactly
\* legal_moves() of the position it is typed in, and leaves the session at
\* the prompt.
C11_HelpChangesNothing ==
    /\ [](pc = "user_input" =>
            \A text \in Texts :
                Dispatch(text) = "help" =>
                    LET s == UserStep(board, ai_pos, text)
                    IN /\ s.board = board
                       /\ s.pc = "user_input"
                       /\ ~s.userEndGame
                       /\ s.last_call.shown = legal_moves(board))
    /\ [][(last_call'.op = "help" /\ last_call' # last_call) =>
             /\ pc = "user_input" /\ pc' = "user_input"
             /\ <<board, move, display, game_over_message, userEndGame>>' =
                   <<board, move, display, game_over_message, userEndGame>>
             /\ last_call'.shown = legal_moves(board)]_vars

\* C11 witness: help was typed after both sides had moved and a non-empty
\* list was printed.
C11_Witness ==
    /\ pc = "user_input"
    /\ last_call.op = "help"
    /\ Plies >= 2
    /\ move = Plies
    /\ Len(last_call.shown) > 0
    /\ last_call.shown = legal_moves(board)

\* the text denotes a move of the engine's legal-move set, in any notation
\* parse_san reads
DenotesLegalMove(b, text) ==
    /\ parse_san(b, text).ok
    /\ parse_san(b, text).move \in LegalMoveSet(b)

\* C12: at the prompt, a line that is neither quit nor help nor a legal move
\* of the position ends in ILLEGAL_MOVE and leaves the board as it is and
\* the session at the prompt, without render or termination check.
C12_RejectedInputChangesNothing ==
    pc = "user_input" =>
        \A text \in Texts :
            (Dispatch(text) = "move" /\ ~DenotesLegalMove(board, text)) =>
                UserStep(board, ai_pos, text) =
                    Step(board, "user_input", FALSE, Call("make_user_move", "ILLEGAL_MOVE"))

\* C13: a successful make_ai_move or make_user_move appends exactly the
\* move its text parses to at the end of the move stack; the stack before
\* it is a prefix of the stack after it, one shorter, and the stack never
\* shrinks.
C13_PlyAppended ==
    /\ [](pc \in {"user_input", "ai_act"} =>
            \A text \in LegalTexts(board) \cup {<<"-", "-">>, <<"e", "9">>} :
                LET r == IF AiTurn THEN make_ai_move(board, ai_pos, text)
                         ELSE make_user_move(board, ai_pos, text)
                IN IF r.result = "OK"
                   THEN r.board.move_stack =
                            Append(board.move_stack, parse_san(board, text).move)
                   ELSE r.board = board)
    /\ [][board' # board =>
             /\ Len(board'.move_stack) = Plies + 1
             /\ SubSeq(board'.move_stack, 1, Plies) = board.move_stack]_vars
    /\ [][Len(board'.move_stack) >= Plies]_vars

\* C13 witness: the human, playing white, made a legal first move and the
\* move stack is that one move; and a longer game kept it in first place.
C13_Witness ==
    /\ ai_pos = 1
    /\ Plies = 1
    /\ last_call = Call("make_user_move", "OK")
    /\ board.move_stack[1] \in LegalMoveSet(StartBoard)
    /\ board = push(StartBoard, board.move_stack[1])

\* the notation of each move of the stack in the position it was applied to
RecordedHistory(b) ==
    [i \in 1 .. Len(b.move_stack) |->
        san(Replay(b.move_stack, i - 1), b.move_stack[i])]

\* C14: get_move_history() is the list of the plies played, in order, each
\* in the notation it had when it was applied.
C14_HistoryAsRecorded == get_move_history(board) = RecordedHistory(board)

\* C15 as stated: from every state that is not done and within the explored
\* depth, a further ply is committed or the loop is done; the loop never
\* leaves by an exception.
C15_AlwaysProgress ==
    /\ \A n \in 0 .. MaxPly :
          (pc # "done" /\ Plies = n /\ WithinBound) ~> (Plies > n \/ pc = "done")
    /\ [](pc # "crashed")

\* C15 with the prompt as a resting place: the AI's turn always ends in a
\* ply, every ply is followed by the termination check and the hand-over,
\* so the loop is done or at the human's prompt; the prompt can always be
\* left by quit and, within the explored depth, by a legal move; the loop
\* never leaves by an exception.
C15_ProgressUpToPrompt ==
    /\ (pc \in {"ai_act", "ai_failsafe"} /\ AiTurn /\ WithinBound) ~> ~AiTurn
    /\ (pc \in {"ai_act", "ai_failsafe", "ai_update"} /\ ~AiTurn) ~>
          (pc \in {"user_input", "done"})
    /\ (pc = "user_update") ~> (pc \in {"ai_act", "done"})
    /\ [](pc = "user_input" =>
            /\ UserStep(board, ai_pos, QuitText).pc = "done"
            /\ WithinBound =>
                  \E text \in LegalTexts(board) :
                      UserStep(board, ai_pos, text).pc = "user_update")
    /\ [](pc # "crashed")

\* C15 witness: after a ply of each side the loop stands at the prompt
\* again, the game not over.
C15_Witness ==
    /\ pc = "user_input"
    /\ last_call.op = "get_end_state"
    /\ Plies >= 2
    /\ move = Plies
    /\ game_over_message = "None"

\* the position with the given side to move
WithTurn(b, color) == [b EXCEPT !.turn = color]

\* C16: ai_pos is 0 or 1 from the start and no step changes it; the AI
\* holds white exactly when ai_pos is 0 and black otherwise, and the human
\* holds the other colour.
C16_SidesFixed ==
    /\ [](ai_pos \in {0, 1})
    /\ [][ai_pos' = ai_pos]_vars
    /\ [](/\ is_ai_turn(WithTurn(board, WHITE), ai_pos) = (ai_pos = 0)
          /\ is_ai_turn(WithTurn(board, BLACK), ai_pos) = (ai_pos = 1)
          /\ \A color \in {WHITE, BLACK} :
                is_ai_turn(WithTurn(board, color), ai_pos) #
                    is_ai_turn(WithTurn(board, ~color), ai_pos))

\* C16 witness: the draw gave the human white, both sides have moved and
\* white, the human, is to move again.
C16_Witness ==
    /\ ai_pos = 1
    /\ Plies >= 2
    /\ board.turn = WHITE
    /\ ~AiTurn
    /\ pc = "user_input"

\* C17: while model.act runs, the only calls are the four queries and
\* make_ai_move; a ply is committed only by make_ai_move, only while it is
\* the AI's turn, and it passes the turn to the human; once the turn is the
\* human's the board does not change until model.act has returned.
C17_AgentMovesOnlyOnItsTurn ==
    /\ [][(pc = "ai_act" /\ last_call' # last_call) =>
             last_call'.op \in QueryTools \cup {"make_ai_move"}]_vars
    /\ [][(pc = "ai_act" /\ board' # board) =>
             /\ AiTurn
             /\ ~is_ai_turn(board', ai_pos)
             /\ last_call' = Call("make_ai_move", "OK")
             /\ Len(board'.move_stack) = Plies + 1]_vars
    /\ [][(pc \in {"ai_act", "ai_failsafe", "ai_update"} /\ ~AiTurn) =>
             board' = board]_vars

\* C17 witness: the agent committed its ply with make_ai_move during the
\* invocation, after a ply of each side, and the turn is the human's.
C17_Witness ==
    /\ pc = "ai_act"
    /\ last_call = Call("make_ai_move", "OK")
    /\ Plies = 3
    /\ ~AiTurn

\* C18: the board is rendered once after every ply, in the update that
\* follows it and not by the move itself; the render is labelled with the
\* number of plies on the move stack and oriented from the human's colour,
\* as every render of the session is; at every prompt and at the start of
\* every agent invocation the renders are the first one and one per ply.
C18_RenderedOncePerPly ==
    /\ [][display' # display =>
             /\ pc \in {"ai_update", "user_update"}
             /\ board' = board
             /\ display'.renders = display.renders + 1
             /\ display'.label = Plies
             /\ display'.orientation = display.orientation]_vars
    /\ []((pc = "user_input" \/ (pc = "ai_act" /\ AiTurn)) =>
            /\ display.renders = Plies + 1
            /\ display.label = Plies)
    /\ [](display.orientation = ~AiColor)

\* C18 witness: at the prompt after the second ply the board has been
\* rendered three times and the label is 2.
C18_Witness ==
    /\ pc = "user_input"
    /\ Plies = 2
    /\ display.label = 2
    /\ display.renders = 3

\* C19: the session starts with white to move and with the side that holds
\* white: the agent's invocation when the AI is white, the prompt when the
\* human is; that side is the one whose turn guard passes on the initial
\* position, and the first ply is committed through its entry point.
C19_WhiteSideActsFirst ==
    /\ board.turn = WHITE
    /\ pc = (IF AiColor = WHITE THEN "ai_act" ELSE "user_input")
    /\ (pc = "ai_act") = is_ai_turn(board, ai_pos)
    /\ [](Plies = 0 /\ pc # "done" =>
            /\ board = StartBoard
            /\ (pc \in {"ai_act", "ai_failsafe"}) = is_ai_turn(board, ai_pos)
            /\ (pc = "user_input") = ~is_ai_turn(board, ai_pos))
    /\ [][(Plies = 0 /\ board' # board) =>
             last_call'.op \in (IF AiColor = WHITE THEN {"make_ai_move", "failsafe"}
                                ELSE {"make_user_move"})]_vars

\* C19 witness: the AI holds white and the agent committed the first ply of
\* the session before any prompt.
C19_Witness ==
    /\ ai_pos = 0
    /\ move = 0
    /\ Plies = 1
    /\ pc = "ai_act"
    /\ last_call = Call("make_ai_move", "OK")
    /\ board.turn = BLACK

\* the five end conditions in the order get_end_state tests them, each with
\* its message
EndConditions(b) ==
    <<[holds |-> is_checkmate(b), message |-> "Checkmate!"],
      [holds |-> is_stalemate(b), message |-> "Stalemate!"],
      [holds |-> is_insufficient_material(b), message |-> "Draw by insufficient material!"],
      [holds |-> is_seventyfive_moves(b), message |-> "Draw by 75-move rule!"],
      [holds |-> is_fivefold_repetition(b), message |-> "Draw by fivefold repetition!"]>>

\* C20: get_end_state of the board (pieces, side to move, halfmove clock
\* and move stack, nothing of the loop) is the message of the first of
\* checkmate, stalemate, insufficient material, 75-move rule and fivefold
\* repetition that holds, and None exactly when none of them holds; the
\* check that stores it leaves the board as it is.
C20_EndStateFirstThatHolds ==
    /\ [](\A c \in {EndConditions(board)} :
            /\ (get_end_state(board) = "None") = (\A i \in 1 .. Len(c) : ~c[i].holds)
            /\ \A i \in 1 .. Len(c) :
                  (get_end_state(board) = c[i].message) =
                      (c[i].holds /\ \A j \in 1 .. i - 1 : ~c[j].holds))
    /\ [][pc = "replay_check" =>
             /\ board' = board
             /\ game_over_message' = get_end_state(board)]_vars

\* C20 witness: the 75-move rule and the fivefold repetition hold together
\* and the message stored is that of the 75-move rule.
C20_Witness ==
    /\ pc = "done"
    /\ is_seventyfive_moves(board)
    /\ is_fivefold_repetition(board)
    /\ game_over_message = "Draw by 75-move rule!"

\* C21: the four query tools leave the board as it is, whichever is called
\* and however often, by the agent or for help at the prompt; is_ai_turn
\* and update_board read it and leave it; a step that changes the board is
\* a move committed by make_ai_move, make_user_move or the failsafe.
C21_QueriesLeaveBoard ==
    /\ [](\A tool \in QueryTools : AfterQuery(tool, board) = board)
    /\ [][last_call'.op \in QueryTools \cup {"help", "get_end_state"} =>
             board' = board]_vars
    /\ [][board' # board =>
             /\ last_call'.op \in {"make_ai_move", "make_user_move", "failsafe"}
             /\ last_call'.result = "OK"
             /\ display' = display]_vars
    /\ [][display' # display => board' = board]_vars

\* C21 witness: the agent has spent all its rounds on queries, the last of
\* them get_move_history after plies were played, and the board is still
\* the one the invocation started with.
C21_Witness ==
    /\ pc = "ai_act"
    /\ rounds = max_prediction_rounds
    /\ last_call.op = "get_move_history"
    /\ Plies >= 2
    /\ AiTurn

\* C22: the loop never leaves by an exception; a line make_user_move rejects
\* is reported and the prompt stays, with the board as it is; a text
\* make_ai_move rejects goes back to the agent, with the board as it is,
\* and model.act goes on; when the failsafe runs with the AI to move, its
\* own make_ai_move succeeds.
C22_RejectionsStayInLoop ==
    /\ [](pc # "crashed")
    /\ [](pc = "user_input" =>
            \A text \in Texts :
                (Dispatch(text) = "move" /\ make_user_move(board, ai_pos, text).result # "OK") =>
                    UserStep(board, ai_pos, text) =
                        Step(board, "user_input", FALSE,
                             Call("make_user_move", make_user_move(board, ai_pos, text).result)))
    /\ [][(pc = "ai_act" /\ rounds' # rounds /\ last_call'.op = "make_ai_move"
              /\ last_call'.result # "OK") =>
             (pc' = "ai_act" /\ board' = board)]_vars
    /\ []((pc = "ai_failsafe" /\ AiTurn) =>
            /\ Len(legal_moves(board)) > 0
            /\ make_ai_move(board, ai_pos, FailsafeMove(board)).result = "OK")

\* C22 witness: the agent's last submission was rejected as illegal, model.act
\* has returned with the AI still to move, and plies were played before.
C22_Witness ==
    /\ pc = "ai_failsafe"
    /\ last_call = Call("make_ai_move", "ILLEGAL_MOVE")
    /\ AiTurn
    /\ Plies >= 2

\* C23: the loop is at one place at a time; while model.act or the failsafe
\* is open only the agent's tools and the failsafe act, while the prompt is
\* open only the human's line acts; a step makes one call and commits at
\* most one ply, and the ply is committed by the side whose turn it is; the
\* agent is invoked only after the human's update and with the AI to move,
\* the prompt opens only after the AI's update and with the human to move.
C23_OneSideAtATime ==
    /\ [](pc \in {"ai_act", "ai_failsafe", "ai_update", "user_input", "user_update", "done"})
    /\ [][(pc \in {"ai_act", "ai_failsafe"} /\ last_call' # last_call) =>
             last_call'.op \in QueryTools \cup {"make_ai_move", "failsafe"}]_vars
    /\ [][(pc = "user_input" /\ last_call' # last_call) =>
             last_call'.op \in {"help", "quit", "make_user_move"}]_vars
    /\ [][/\ rounds' \in {rounds, rounds + 1, 0}
          /\ Len(board'.move_stack) \in {Plies, Plies + 1}]_vars
    /\ [][board' # board =>
             /\ (pc \in {"ai_act", "ai_failsafe"}) = AiTurn
             /\ (pc = "user_input") = ~AiTurn
             /\ (last_call'.op \in {"make_ai_move", "failsafe"}) = AiTurn
             /\ (last_call'.op = "make_user_move") = ~AiTurn]_vars
    /\ [][(pc' # pc /\ pc' = "ai_act") =>
             (pc = "user_update" /\ is_ai_turn(board', ai_pos))]_vars
    /\ [][(pc' # pc /\ pc' = "user_input") =>
             (pc = "ai_update" /\ ~is_ai_turn(board', ai_pos))]_vars

\* C23 witness: the AI holds white, each side has moved once, and the agent
\* is invoked a second time with the AI to move.
C23_Witness ==
    /\ ai_pos = 0
    /\ pc = "ai_act"
    /\ Plies = 2
    /\ rounds = 0
    /\ last_call.op = "get_end_state"
    /\ AiTurn

\* C24: an automated turn adds exactly one ply.  While model.act and the
\* failsafe are open the board holds either the plies of the turns before
\* (move of them) with the AI to move, or one more with the human to move;
\* at the update it holds exactly one more.  Once the agent has committed,
\* every further make_ai_move answers WRONG_TURN and leaves the board as it
\* is.  The failsafe commits a ply exactly when the agent committed none.
C24_OnePlyPerAutomatedTurn ==
    /\ [](pc \in {"ai_act", "ai_failsafe"} =>
            \/ (AiTurn /\ Plies = move)
            \/ (~AiTurn /\ Plies = move + 1))
    /\ [](pc = "ai_update" => (~AiTurn /\ Plies = move + 1))
    /\ []((pc = "ai_act" /\ Plies = move + 1) =>
            \A text \in Texts :
                make_ai_move(board, ai_pos, text) = Outcome("WRONG_TURN", board))
    /\ [][(pc = "ai_act" /\ Plies = move + 1) => board' = board]_vars
    /\ [][pc = "ai_failsafe" =>
             /\ (board' # board) = (Plies = move)
             /\ Len(board'.move_stack) = move + 1
             /\ pc' = "ai_update"]_vars

\* C24 witness: the agent has committed its ply in this invocation and a
\* later make_ai_move of the same invocation was answered WRONG_TURN.
C24_Witness ==
    /\ pc = "ai_act"
    /\ Plies = move + 1
    /\ move >= 1
    /\ last_call = Call("make_ai_move", "WRONG_TURN")

\* C25: a turn is opened only on a position that has legal moves.  While the
\* agent's invocation or the failsafe is open with the AI still to move, and
\* while the prompt is open, the game has not ended and legal_moves() is not
\* empty; the failsafe's legal_moves()[0] therefore exists and its
\* make_ai_move is answered OK.
C25_TurnsHaveLegalMoves ==
    /\ []((pc \in {"ai_act", "ai_failsafe"} /\ AiTurn) =>
            /\ Len(legal_moves(board)) > 0
            /\ get_end_state(board) = "None")
    /\ [](pc = "user_input" =>
            /\ ~AiTurn
            /\ Len(legal_moves(board)) > 0
            /\ get_end_state(board) = "None")
    /\ [][(pc = "ai_failsafe" /\ AiTurn) =>
             /\ last_call' = Call("failsafe", "OK")
             /\ pc' = "ai_update"
             /\ board' = push_san(board, legal_moves(board)[1]).board]_vars

\* C25 witness: the agent returned without a call after both sides have
\* moved, and the failsafe is about to take legal_moves()[0].
C25_Witness ==
    /\ pc = "ai_failsafe"
    /\ AiTurn
    /\ Plies >= 2
    /\ rounds = 0
    /\ Len(legal_moves(board)) > 0

\* C26: the loop's position agrees with the board's side to move, whichever
\* colour the AI holds.  While the prompt is open is_ai_turn() is false and
\* no line makes make_user_move answer WRONG_TURN; when model.act is invoked
\* (no ply of this turn committed yet) is_ai_turn() is true.
C26_LoopAgreesWithTurn ==
    /\ [](pc = "user_input" =>
            /\ ~AiTurn
            /\ board.turn = (IF ai_pos = 0 THEN BLACK ELSE WHITE)
            /\ \A text \in Texts :
                   make_user_move(board, ai_pos, text).result # "WRONG_TURN")
    /\ []((pc = "ai_act" /\ Plies = move) =>
            /\ AiTurn
            /\ board.turn = AiColor)
    /\ [][(pc' = "ai_act" /\ pc # "ai_act") =>
             (is_ai_turn(board', ai_pos) /\ rounds' = 0)]_vars
    /\ [][(pc = "user_input" /\ last_call'.op = "make_user_move") =>
             last_call'.result \in {"OK", "ILLEGAL_MOVE"}]_vars

\* C26 witness: the AI holds black, the human (white) has moved, the AI has
\* answered, and the human's next line was rejected as illegal, not for the
\* turn.
C26_Witness ==
    /\ ai_pos = 1
    /\ pc = "user_input"
    /\ Plies = 2
    /\ ~AiTurn
    /\ last_call = Call("make_user_move", "ILLEGAL_MOVE")

\* C27: whenever the agent is invoked, the colour its task description names
\* is the colour the AI holds, the side whose moves make_ai_move accepts.
C27_TaskNamesAiColor ==
    pc = "ai_act" =>
        /\ TaskColor(ai_pos) = AiColor
        /\ (AiTurn => board.turn = TaskColor(ai_pos))

\* the words of the chunks, chunk after chunk
RECURSIVE WordsOf(_)
WordsOf(list) ==
    IF list = <<>> THEN <<>> ELSE split(list[1]) \o WordsOf(Tail(list))

\* C28: every chunk split_text(text, max_tokens) returns is at most
\* max_tokens characters long, for every text and every max_tokens >= 1.
C28_ChunksWithinLimit ==
    phase = "split_done" =>
        \A i \in 1..Len(chunks) : Len(chunks[i]) <= max_tokens

\* C29: the words of the chunks, taken chunk after chunk, are exactly
\* text.split(), and no chunk is the empty string.
C29_NothingLostNoEmptyChunk ==
    phase = "split_done" =>
        /\ WordsOf(chunks) = split(contract_text)
        /\ \A i \in 1..Len(chunks) : chunks[i] # <<>>

\* C30: generate_analysis_with_watsonx invokes the model once per chunk of
\* split_text, in chunk order: the i-th invocation receives the prompt of the
\* i-th chunk and its result is the i-th result; at the return there are as
\* many invocations as chunks and the returned document is the results
\* joined in that order.
C30_OneInvocationPerChunkInOrder ==
    /\ [](phase \in {"chunks_loop", "returned"} =>
            /\ chunks = split_text(contract_text, AnalysisMaxTokens)
            /\ Len(invocations) = Len(results)
            /\ Len(results) <= Len(chunks)
            /\ \A i \in 1..Len(invocations) :
                   invocations[i] = format_prompt(chunks[i]))
    /\ [](phase = "returned" =>
            /\ Len(invocations) = Len(chunks)
            /\ contract_analysis = join(<<"\n", "\n">>, results)
            /\ (Len(results) = 2 =>
                   contract_analysis = results[1] \o <<"\n", "\n">> \o results[2]))
    /\ [][(phase = "chunks_loop" /\ phase' = "chunks_loop") =>
             /\ chunks' = chunks
             /\ Len(invocations') = Len(invocations) + 1
             /\ SubSeq(invocations', 1, Len(invocations)) = invocations
             /\ SubSeq(results', 1, Len(results)) = results]_vars
    /\ [][phase = "returned" => phase' = "returned"]_vars

\* C30 witness: a contract of three different chunks was analysed, the
\* model answered differently for them, and the document was returned.
C30_Witness ==
    /\ phase = "returned"
    /\ Len(chunks) = 3
    /\ chunks[1] # chunks[2]
    /\ chunks[2] # chunks[3]
    /\ results = <<<<"x">>, <<"y">>, <<"x">>>>
    /\ Len(invocations) = 3

====
